---- MODULE Spec2Model ----
\* A model of cuda_to_hip.py (pyHIPIFY): the per-file text rewriting done by
\* preprocessor (identifier substitution, kernel launch rewriting, assert
\* disabling) and the run statistics collected by walk_over_directory.
\* Texts are sequences of one-character strings; the regular expressions of
\* the source are evaluated character by character with Python's leftmost,
\* greedy, backtracking semantics.
EXTENDS Integers, Sequences, FiniteSets, TLC

VARIABLES
  table,          \* CUDA_TO_HIP_MAPPINGS: a sequence of mappings, each a sequence of entries
  disk,           \* the contents of the files met by the walk so far
  cur,            \* the file being processed: an index into disk (the filepath)
  pc,             \* the position of the run
  output_source,  \* the text of the current file, in memory
  entry,          \* the position of the mapping loops of preprocessor
  stats,          \* stats["unsupported_calls"] and stats["kernel_launches"]
  report          \* the two totals printed by compute_stats

vars == <<table, disk, cur, pc, output_source, entry, stats, report>>

\* ------------------------------------------------------------------
\* Characters and character classes
\* ------------------------------------------------------------------

Letters ==
  {"a","b","c","d","e","f","g","h","i","j","k","l","m","n","o","p","q","r",
   "s","t","u","v","w","x","y","z","A","B","C","D","E","F","G","H","I","J",
   "K","L","M","N","O","P","Q","R","S","T","U","V","W","X","Y","Z"}

Digits == {"0","1","2","3","4","5","6","7","8","9"}

\* [a-zA-Z0-9_.]: the word characters if the dot were one of them
WordCharsWithDot == Letters \cup Digits \cup {"_", "."}

\* \w of the re module (no LOCALE or UNICODE flag): [a-zA-Z0-9_]
WordChars == Letters \cup Digits \cup {"_"}

\* the characters excluded by the class [^a-zA-Z0-9_.\n] of disable_asserts
AssertClassExcluded == Letters \cup Digits \cup {"_", ".", "\n"}

\* the class [\n|\\| ] of the kernel launch pattern: newline, bar, backslash, space
LaunchGapChars == {"\n", "|", "\\", " "}

\* the characters removed by str.strip() that the texts can contain
StripChars == {" ", "\n", "\t"}

Punctuation ==
  {"_", ".", "\n", " ", "\t", "(", ")", "<", ">", ",", ";", "/", "|", "\\",
   "&", "=", "+", "-", "*", "!", "#", "{", "}", "[", "]", ":"}

\* the class [^a-zA-Z0-9_.\n] of disable_asserts
AssertGapChars == (Letters \cup Digits \cup Punctuation) \ AssertClassExcluded

\* ------------------------------------------------------------------
\* String helpers (str methods and re primitives)
\* ------------------------------------------------------------------

\* s[i:j] for 1-based inclusive bounds, empty when j < i
Slice(s, i, j) == IF j < i THEN <<>> ELSE SubSeq(s, i, j)

\* the literal pat occurs in s at position i
OccursAt(s, pat, i) ==
  /\ i >= 1
  /\ i + Len(pat) - 1 <= Len(s)
  /\ \A n \in 1..Len(pat) : s[i + n - 1] = pat[n]

\* str.find(pat) > -1, and also "pat in s"
find(s, pat) == \E i \in 1..(Len(s) + 1) : OccursAt(s, pat, i)

\* position i of s holds a \w character (FALSE outside the string)
IsWordAt(s, i) == i >= 1 /\ i <= Len(s) /\ s[i] \in WordChars

\* \b at the gap in front of position i
WordBoundary(s, i) == IsWordAt(s, i - 1) # IsWordAt(s, i)

\* the pattern \b(key) without the closing \b
WordMatchAt_LeftOnly(s, key, i) ==
  /\ OccursAt(s, key, i)
  /\ WordBoundary(s, i)

\* the pattern \b(key)\b matches at position i
WordMatchAt(s, key, i) ==
  /\ OccursAt(s, key, i)
  /\ WordBoundary(s, i)
  /\ WordBoundary(s, i + Len(key))

RECURSIVE re_sub_word_from(_, _, _, _)
re_sub_word_from(s, key, hip, i) ==
  IF i > Len(s) THEN <<>>
  ELSE IF WordMatchAt(s, key, i)
       THEN hip \o re_sub_word_from(s, key, hip, i + Len(key))
       ELSE <<s[i]>> \o re_sub_word_from(s, key, hip, i + 1)

\* the substitution applied again to its own output
re_sub_word_rescan(s, key, hip) ==
  re_sub_word_from(re_sub_word_from(s, key, hip, 1), key, hip, 1)

\* re.sub(r'\b(%s)\b' % cuda_type, lambda input: hip_type, output_source)
re_sub_word(s, key, hip) == re_sub_word_from(s, key, hip, 1)

RECURSIVE str_replace_from(_, _, _, _)
str_replace_from(s, old, new, i) ==
  IF i > Len(s) THEN <<>>
  ELSE IF OccursAt(s, old, i)
       THEN new \o str_replace_from(s, old, new, i + Len(old))
       ELSE <<s[i]>> \o str_replace_from(s, old, new, i + 1)

\* str.replace(old, new) for a non-empty old
str_replace(s, old, new) == str_replace_from(s, old, new, 1)

RECURSIVE str_split_from(_, _, _, _)
str_split_from(s, sep, i, field) ==
  IF i > Len(s) THEN <<field>>
  ELSE IF s[i] = sep
       THEN <<field>> \o str_split_from(s, sep, i + 1, <<>>)
       ELSE str_split_from(s, sep, i + 1, Append(field, s[i]))

\* str.split(sep) for a one-character separator: always at least one field
str_split(s, sep) == str_split_from(s, sep, 1, <<>>)

RECURSIVE lstrip(_)
lstrip(s) ==
  IF s # <<>> /\ Head(s) \in StripChars THEN lstrip(Tail(s)) ELSE s

RECURSIVE rstrip(_)
rstrip(s) ==
  IF s # <<>> /\ s[Len(s)] \in StripChars
  THEN rstrip(Slice(s, 1, Len(s) - 1)) ELSE s

\* str.strip()
strip(s) == rstrip(lstrip(s))

RECURSIVE str_join(_, _)
\* sep.join(list)
str_join(sep, list) ==
  IF list = <<>> THEN <<>>
  ELSE IF Len(list) = 1 THEN list[1]
  ELSE list[1] \o sep \o str_join(sep, Tail(list))

RECURSIVE collapse_spaces_from(_, _)
collapse_spaces_from(s, i) ==
  IF i > Len(s) THEN <<>>
  ELSE IF s[i] = " " /\ i > 1 /\ s[i - 1] = " "
       THEN collapse_spaces_from(s, i + 1)
       ELSE <<s[i]>> \o collapse_spaces_from(s, i + 1)

\* re.sub(' +', ' ', s): every run of spaces becomes one space
collapse_spaces(s) == collapse_spaces_from(s, 1)

\* ------------------------------------------------------------------
\* String literals of the source
\* ------------------------------------------------------------------

LaunchOpen == <<"<", "<", "<">>

LaunchClose == <<">", ">", ">">>

LaunchCloseParen == <<">", ">", ">", "(">>

Dim3Open == <<"d", "i", "m", "3", "(">>

HipLaunchName ==
  <<"h","i","p","L","a","u","n","c","h","K","e","r","n","e","l","G","G","L">>

AssertToken == <<"a", "s", "s", "e", "r", "t">>

CommentMarker == <<"/", "/">>

ZeroLiteral == <<"0">>

CommaSpace == <<",", " ">>

\* ------------------------------------------------------------------
\* processKernelLaunches
\* ------------------------------------------------------------------

\* "dim3(%s)" % param.strip()
dim3_wrap(param) == Dim3Open \o strip(param) \o <<")">>

\* the launch parameters cut or filled to exactly 4 elements
zero_fill_truncating(params) ==
  [n \in 1..4 |-> IF n <= Len(params) THEN params[n] ELSE ZeroLiteral]

\* kernel_launch_params[len(kernel_launch_params):4] = ["0"] * (4 - len(...)):
\* the slice is empty and the repetition count is not positive when the list
\* already has 4 or more elements, so the list is then left as it is
zero_fill(params) ==
  IF Len(params) >= 4 THEN params
  ELSE params \o [n \in 1..(4 - Len(params)) |-> ZeroLiteral]

\* create_hip_kernel with the second parameter wrapped only when there is one
create_hip_kernel_padding(kernel_name, kernel_template, launch_text) ==
  LET split == str_split(str_replace(str_replace(launch_text, LaunchOpen, <<>>),
                                     LaunchClose, <<>>), ",")
      wrapped == [n \in 1..Len(split) |->
                    IF n <= 2 THEN dim3_wrap(split[n]) ELSE split[n]]
      params == zero_fill(wrapped)
      raw == HipLaunchName \o <<"(", "(">> \o kernel_name
               \o kernel_template \o <<")", ",", " ">>
               \o str_join(CommaSpace, params) \o CommaSpace
  IN [ok |-> TRUE, params |-> params, text |-> collapse_spaces(raw)]

\* the replacement callback of processKernelLaunches, without the stats update:
\* ok is FALSE when kernel_launch_params[1] raises IndexError
create_hip_kernel(kernel_name, kernel_template, launch_text) ==
  LET split == str_split(str_replace(str_replace(launch_text, LaunchOpen, <<>>),
                                     LaunchClose, <<>>), ",")
  IN IF Len(split) < 2
     THEN [ok |-> FALSE, params |-> <<>>, text |-> <<>>]
     ELSE LET wrapped == [n \in 1..Len(split) |->
                            IF n <= 2 THEN dim3_wrap(split[n]) ELSE split[n]]
              params == zero_fill(wrapped)
              raw == HipLaunchName \o <<"(", "(">> \o kernel_name
                       \o kernel_template \o <<")", ",", " ">>
                       \o str_join(CommaSpace, params) \o CommaSpace
          IN [ok |-> TRUE, params |-> params, text |-> collapse_spaces(raw)]

\* end of the maximal run of characters of class cls starting at i (i-1 if none)
RECURSIVE RunEnd(_, _, _)
RunEnd(s, cls, i) ==
  IF i <= Len(s) /\ s[i] \in cls THEN RunEnd(s, cls, i + 1) ELSE i - 1

\* no newline in s[i..j]: what '.*' can span
NoNewline(s, i, j) == \A n \in i..j : s[n] # "\n"

\* positions u at which '>>>\(' can close a launch list that opens at g
LaunchCloses(s, g) ==
  {u \in g..Len(s) : OccursAt(s, LaunchCloseParen, u) /\ NoNewline(s, g, u - 1)}

\* positions q of the '>' that can end group 2 when group 2 starts at p:
\* '<.*>' then a non-empty run of [\n|\\| ] then '<<<' then '.*>>>\('
TemplateEnds(s, p) ==
  {q \in (p + 1)..Len(s) :
     /\ s[q] = ">"
     /\ NoNewline(s, p + 1, q - 1)
     /\ LET r == RunEnd(s, LaunchGapChars, q + 1)
        IN /\ r >= q + 1
           /\ OccursAt(s, LaunchOpen, r + 1)
           /\ LaunchCloses(s, r + 4) # {}}

Max(S) == CHOOSE x \in S : \A y \in S : y <= x

\* the match of r'(\w+)(<.*>)[\n|\\| ]+<<<(.*)>>>\(' that starts at i, if any:
\* both '.*' are greedy, and the first one is tried longest first
LaunchMatchAt(s, i) ==
  IF ~IsWordAt(s, i) THEN [found |-> FALSE]
  ELSE LET e == RunEnd(s, WordChars, i)
           p == e + 1
       IN IF ~(p <= Len(s) /\ s[p] = "<") \/ TemplateEnds(s, p) = {}
          THEN [found |-> FALSE]
          ELSE LET q == Max(TemplateEnds(s, p))
                   r == RunEnd(s, LaunchGapChars, q + 1)
                   u == Max(LaunchCloses(s, r + 4))
               IN [found |-> TRUE,
                   group1 |-> Slice(s, i, e),
                   group2 |-> Slice(s, p, q),
                   group3 |-> Slice(s, r + 4, u - 1),
                   last |-> u + 3]

RECURSIVE launches_from(_, _, _, _)
launches_from(s, i, out, launches) ==
  IF i > Len(s) THEN [ok |-> TRUE, out |-> out, launches |-> launches]
  ELSE LET m == LaunchMatchAt(s, i)
       IN IF ~m.found
          THEN launches_from(s, i + 1, Append(out, s[i]), launches)
          ELSE LET k == create_hip_kernel(m.group1, m.group2, m.group3)
               IN IF ~k.ok
                  THEN [ok |-> FALSE, out |-> out, launches |-> launches]
                  ELSE launches_from(s, m.last + 1, out \o k.text,
                                     Append(launches, k.text))

\* processKernelLaunches(string, stats): the rewritten text and the strings
\* appended to stats["kernel_launches"], or ok = FALSE with the strings
\* appended before create_hip_kernel raised
processKernelLaunches(string) == launches_from(string, 1, <<>>, <<>>)

\* ------------------------------------------------------------------
\* disable_asserts
\* ------------------------------------------------------------------

\* the match of r'(^|[^a-zA-Z0-9_.\n]+)(assert)([^a-zA-Z0-9_.\n]+)' that starts
\* at i, if any. '^' (no MULTILINE flag) matches at the start of the text only;
\* both character runs are greedy and at least one character long.
AssertMatchAt(s, i) ==
  LET j == IF i = 1 /\ OccursAt(s, AssertToken, 1)
           THEN 0
           ELSE RunEnd(s, AssertGapChars, i)
      a == j + 1
      e == RunEnd(s, AssertGapChars, a + Len(AssertToken))
  IN IF (j >= i \/ (i = 1 /\ j = 0))
        /\ OccursAt(s, AssertToken, a)
        /\ e >= a + Len(AssertToken)
     THEN [found |-> TRUE,
           group1 |-> Slice(s, i, j),
           group3 |-> Slice(s, a + Len(AssertToken), e),
           last |-> e]
     ELSE [found |-> FALSE]

\* the replacement callback of disable_asserts
whitelist(group1, group2, group3) == group1 \o CommentMarker \o group2 \o group3

RECURSIVE asserts_from(_, _)
asserts_from(s, i) ==
  IF i > Len(s) THEN <<>>
  ELSE LET m == AssertMatchAt(s, i)
       IN IF m.found
          THEN whitelist(m.group1, AssertToken, m.group3)
                 \o asserts_from(s, m.last + 1)
          ELSE <<s[i]>> \o asserts_from(s, i + 1)

disable_asserts(input_string) == asserts_from(input_string, 1)

\* ------------------------------------------------------------------
\* preprocessor, walk_over_directory, compute_stats
\* ------------------------------------------------------------------

RECURSIVE Flatten(_)
Flatten(mappings) ==
  IF mappings = <<>> THEN <<>> ELSE Head(mappings) \o Flatten(Tail(mappings))

\* the entries in the order of "for mapping in ...: for key, value in ..."
TableEntries == Flatten(table)

\* the pair recorded only when the symbol occurs as a whole token
record_unsupported_whole_token(calls, text, e, filepath) ==
  IF (\E i \in 1..Len(text) : WordMatchAt(text, e.cuda, i)) /\ e.unsupported
  THEN Append(calls, <<e.cuda, filepath>>)
  ELSE calls

\* lines 165-168: one (cuda_type, filepath) pair when the symbol is found in
\* the text and its meta data hold constants.HIP_UNSUPPORTED
record_unsupported(calls, text, e, filepath) ==
  IF find(text, e.cuda) /\ e.unsupported
  THEN Append(calls, <<e.cuda, filepath>>)
  ELSE calls

\* lines 171-175
replace_occurrences(text, e) ==
  IF find(text, e.cuda) THEN re_sub_word(text, e.cuda, e.hip) ELSE text

\* the emitted kernels put in front of the recorded ones
record_launches_prepend(launches, emitted) == emitted \o launches

\* line 133, for every kernel emitted by one call of processKernelLaunches
record_launches(launches, emitted) == launches \o emitted

\* line 93: the set of the unsupported symbols
unsupported_set(calls) == {calls[n][1] : n \in 1..Len(calls)}

\* lines 96 and 102: the two totals that compute_stats prints
compute_stats(s) ==
  [unsupported |-> Cardinality(unsupported_set(s.unsupported_calls)),
   launches |-> Len(s.kernel_launches)]

NoReport == [unsupported |-> -1, launches |-> -1]

EmptyStats == [unsupported_calls |-> <<>>, kernel_launches |-> <<>>]

\* ------------------------------------------------------------------
\* Inputs: mapping tables and file texts
\* ------------------------------------------------------------------

MaxEntries == 2

MaxTextLen == 3

MaxParams == 5

MaxAssertTokens == 4

NumFiles == 2

SeqsUpTo(S, n) == UNION {[1..m -> S] : m \in 0..n}

\* the entries a table is made of: cuda symbol, hip replacement, and whether
\* the meta data hold constants.HIP_UNSUPPORTED
EntryPool ==
  { [cuda |-> <<"a">>, hip |-> <<"b">>, unsupported |-> FALSE],
    [cuda |-> <<"b">>, hip |-> <<"c">>, unsupported |-> TRUE],
    [cuda |-> <<"a">>, hip |-> <<"a">>, unsupported |-> TRUE],
    [cuda |-> <<"a", "b">>, hip |-> <<"a">>, unsupported |-> FALSE],
    [cuda |-> <<"b">>, hip |-> <<"a", ".", "b">>, unsupported |-> FALSE] }

\* entry sequences with pairwise different symbols
EntrySeqs ==
  {es \in SeqsUpTo(EntryPool, MaxEntries) :
     /\ es # <<>>
     /\ \A m, n \in 1..Len(es) : m # n => es[m].cuda # es[n].cuda}

\* CUDA_TO_HIP_MAPPINGS: one mapping, or two mappings applied in order
Tables ==
  {<<es>> : es \in EntrySeqs}
    \cup {<<Slice(p[1], 1, p[2]), Slice(p[1], p[2] + 1, Len(p[1]))>> :
            p \in {q \in EntrySeqs \X (1..(MaxEntries - 1)) : q[2] < Len(q[1])}}

SubstAlphabet == {"a", "b", "1", "_", ".", " "}

\* the file texts of the identifier substitution
SubstTexts == SeqsUpTo(SubstAlphabet, MaxTextLen)

KernelNames == {<<"k">>}

TemplateArgs == {<<>>, <<"<", "T", ">">>}

LaunchGaps == {<<>>, <<" ">>, <<"\n">>}

LaunchExprs == {<<"g">>, <<"s", "1">>}

ParamSeparators == {<<",">>, <<",", " ">>}

CallArgs == <<"x", ",", " ", "y", ")", ";">>

\* K T gap <<< e1 sep e2 sep ... >>> ( args
MakeLaunch(K, T, gap, exprs, sep) ==
  K \o T \o gap \o LaunchOpen \o str_join(sep, exprs) \o LaunchCloseParen
    \o CallArgs

\* the file texts of the kernel launch rewriting: one launch, or two on a line
SingleLaunchTexts ==
  {MakeLaunch(K, T, gap, exprs, sep) :
     K \in KernelNames, T \in TemplateArgs, gap \in LaunchGaps,
     exprs \in SeqsUpTo(LaunchExprs, MaxParams), sep \in ParamSeparators}

\* a well-formed launch in front of another one, on the same line or the line before
FirstLaunch ==
  MakeLaunch(<<"f">>, <<"<", "T", ">">>, <<" ">>, <<<<"g">>, <<"g">>>>, <<",">>)

LaunchTexts ==
  SingleLaunchTexts
    \cup {FirstLaunch \o between \o l :
            between \in {<<" ">>, <<"\n">>}, l \in SingleLaunchTexts}

AssertTokens == {AssertToken, <<"(">>, <<"\n">>, <<"x">>, <<".">>}

\* the file texts of the assert disabling
AssertTexts == {Flatten(ts) : ts \in SeqsUpTo(AssertTokens, MaxAssertTokens)}

\* the file texts of a whole run
RunTexts ==
  { <<"a">>, <<"b", " ", "b">>, <<"a", "b">>, <<"a", ".", "b">>,
    AssertToken \o <<"(", "a", ")", ";">>,
    MakeLaunch(<<"k">>, <<"<", "T", ">">>, <<" ">>, <<<<"a">>, <<"b">>>>, <<",", " ">>),
    MakeLaunch(<<"k">>, <<"<", "T", ">">>, <<" ">>, <<<<"a">>>>, <<",">>),
    FirstLaunch \o <<"\n">>
      \o MakeLaunch(<<"k">>, <<"<", "T", ">">>, <<" ">>, <<>>, <<",">>) }

\* ------------------------------------------------------------------
\* The run
\* ------------------------------------------------------------------

TypeOK ==
  /\ table \in Tables
  /\ cur \in 0..NumFiles
  /\ Len(disk) = cur
  /\ pc \in {"walk", "subst", "launch", "asserts", "write", "stats", "done", "error"}
  /\ entry \in 1..(Len(TableEntries) + 1)

Init ==
  /\ table \in Tables
  /\ disk = <<>>
  /\ cur = 0
  /\ pc = "walk"
  /\ output_source = <<>>
  /\ entry = 1
  /\ stats = EmptyStats
  /\ report = NoReport

\* walk_over_directory meets the next file with a listed extension;
\* preprocessor opens it and reads it (lines 74-80 and 154-155)
OpenFile(texts) ==
  /\ pc = "walk"
  /\ cur < NumFiles
  /\ \E text \in texts :
       /\ disk' = Append(disk, text)
       /\ output_source' = text
  /\ cur' = cur + 1
  /\ entry' = 1
  /\ pc' = IF TableEntries = <<>> THEN "launch" ELSE "subst"
  /\ UNCHANGED <<table, stats, report>>

\* one iteration of the mapping loops (lines 158-175)
Substitute ==
  /\ pc = "subst"
  /\ entry <= Len(TableEntries)
  /\ LET e == TableEntries[entry]
     IN /\ stats' = [stats EXCEPT !.unsupported_calls =
                       record_unsupported(@, output_source, e, cur)]
        /\ output_source' = replace_occurrences(output_source, e)
  /\ entry' = entry + 1
  /\ pc' = IF entry = Len(TableEntries) THEN "launch" ELSE "subst"
  /\ UNCHANGED <<table, disk, cur, report>>

\* line 178, when no create_hip_kernel call raises
RewriteLaunches ==
  /\ pc = "launch"
  /\ LET r == processKernelLaunches(output_source)
     IN /\ r.ok
        /\ output_source' = r.out
        /\ stats' = [stats EXCEPT !.kernel_launches = record_launches(@, r.launches)]
  /\ pc' = "asserts"
  /\ UNCHANGED <<table, disk, cur, entry, report>>

\* line 178, when a create_hip_kernel call raises IndexError (line 121): the
\* exception leaves preprocessor and walk_over_directory, nothing is written
LaunchError ==
  /\ pc = "launch"
  /\ LET r == processKernelLaunches(output_source)
     IN /\ ~r.ok
        /\ stats' = [stats EXCEPT !.kernel_launches = record_launches(@, r.launches)]
  /\ pc' = "error"
  /\ UNCHANGED <<table, disk, cur, output_source, entry, report>>

\* line 181
DisableAsserts ==
  /\ pc = "asserts"
  /\ output_source' = disable_asserts(output_source)
  /\ pc' = "write"
  /\ UNCHANGED <<table, disk, cur, entry, stats, report>>

\* lines 184-190: the file is overwritten with the rewritten text
WriteFile ==
  /\ pc = "write"
  /\ disk' = [disk EXCEPT ![cur] = output_source]
  /\ pc' = "walk"
  /\ UNCHANGED <<table, cur, output_source, entry, stats, report>>

\* the walk is over (line 88)
Finished ==
  /\ pc = "walk"
  /\ pc' = "stats"
  /\ UNCHANGED <<table, disk, cur, output_source, entry, stats, report>>

\* line 89
ComputeStats ==
  /\ pc = "stats"
  /\ report' = compute_stats(stats)
  /\ pc' = "done"
  /\ UNCHANGED <<table, disk, cur, output_source, entry, stats>>

OpenRunFile == OpenFile(RunTexts)

Next ==
  \/ OpenRunFile
  \/ Substitute
  \/ RewriteLaunches
  \/ LaunchError
  \/ DisableAsserts
  \/ WriteFile
  \/ Finished
  \/ ComputeStats

Spec == Init /\ [][Next]_vars

\* the identifier substitution alone, on one file with any text of SubstTexts
InitSubst ==
  /\ table \in Tables
  /\ \E text \in SubstTexts : disk = <<text>> /\ output_source = text
  /\ cur = 1
  /\ pc = "subst"
  /\ entry = 1
  /\ stats = EmptyStats
  /\ report = NoReport

NextSubst == Substitute

SpecSubst == InitSubst /\ [][NextSubst]_vars

\* the kernel launch rewriting alone, on one file with any text of LaunchTexts
InitLaunch ==
  /\ table \in {<<<<>>>>}
  /\ \E text \in LaunchTexts : disk = <<text>> /\ output_source = text
  /\ cur = 1
  /\ pc = "launch"
  /\ entry = 1
  /\ stats = EmptyStats
  /\ report = NoReport

NextLaunch == RewriteLaunches \/ LaunchError

SpecLaunch == InitLaunch /\ [][NextLaunch]_vars

\* the assert disabling alone, on one file with any text of AssertTexts
InitAsserts ==
  /\ table \in {<<<<>>>>}
  /\ \E text \in AssertTexts : disk = <<text>> /\ output_source = text
  /\ cur = 1
  /\ pc = "asserts"
  /\ entry = 1
  /\ stats = EmptyStats
  /\ report = NoReport

NextAsserts == DisableAsserts

SpecAsserts == InitAsserts /\ [][NextAsserts]_vars

\* ------------------------------------------------------------------
\* Properties
\* ------------------------------------------------------------------

IsPrefix(a, b) == Len(a) <= Len(b) /\ Slice(b, 1, Len(a)) = a

Count(seq, x) == Cardinality({n \in 1..Len(seq) : seq[n] = x})

Occurrences(s, pat) == {i \in 1..Len(s) : OccursAt(s, pat, i)}

\* position i of s holds a letter, a digit or an underscore
IsIdentAt(s, i) ==
  i >= 1 /\ i <= Len(s) /\ s[i] \in Letters \cup Digits \cup {"_"}

IsDotAt(s, i) == i >= 1 /\ i <= Len(s) /\ s[i] = "."

\* the occurrences of key in s with no letter, digit or underscore on either side
WholeTokens(s, key) ==
  {i \in Occurrences(s, key) :
     ~IsIdentAt(s, i - 1) /\ ~IsIdentAt(s, i + Len(key))}

\* every occurrence of every table symbol in s touches a letter, digit or underscore
OnlyEmbedded(s) ==
  \A n \in 1..Len(TableEntries) : WholeTokens(s, TableEntries[n].cuda) = {}

\* C1: a text in which every occurrence of every mapped symbol is immediately
\* preceded or followed by a letter, digit or underscore comes out of the
\* identifier substitution identical to the input.
C1_WholeTokenOnly ==
  (cur >= 1 /\ pc \in {"subst", "launch"} /\ OnlyEmbedded(disk[cur]))
    => output_source = disk[cur]

C1_Witness ==
  /\ cur >= 1 /\ pc = "launch"
  /\ OnlyEmbedded(disk[cur])
  /\ \E n \in 1..Len(TableEntries) :
       Occurrences(disk[cur], TableEntries[n].cuda) # {}
  /\ output_source = disk[cur]

\* the text the launch rewriter is said to emit for kernel K, template T and
\* the normalized launch configuration config
ExpectedLaunch(K, T, config) ==
  HipLaunchName \o <<"(", "(">> \o K \o T \o <<")", ",", " ">>
    \o str_join(CommaSpace, config) \o CommaSpace

Dim3(e) == Dim3Open \o e \o <<")">>

\* C2: K<<<g, b>>>(args); becomes hipLaunchKernelGGL((K), dim3(g), dim3(b), 0, 0, args);
C2_MinimalLaunch ==
  \A K \in KernelNames, g \in LaunchExprs, b \in LaunchExprs :
    (cur >= 1 /\ pc # "launch"
       /\ disk[cur] = MakeLaunch(K, <<>>, <<>>, <<g, b>>, CommaSpace))
      => output_source =
           ExpectedLaunch(K, <<>>, <<Dim3(g), Dim3(b), ZeroLiteral, ZeroLiteral>>)
             \o CallArgs

\* C3: K<T><<<g, b, s, st>>>(args); becomes
\* hipLaunchKernelGGL((K<T>), dim3(g), dim3(b), s, st, args);
C3_FullLaunch ==
  \A K \in KernelNames, T \in TemplateArgs \ {<<>>},
     exprs \in [1..4 -> LaunchExprs] :
    (cur >= 1 /\ pc # "launch"
       /\ disk[cur] = MakeLaunch(K, T, <<>>, exprs, CommaSpace))
      => output_source =
           ExpectedLaunch(K, T, <<Dim3(exprs[1]), Dim3(exprs[2]), exprs[3], exprs[4]>>)
             \o CallArgs

\* the occurrences of assert bounded on both sides by a character outside
\* [A-Za-z0-9_.], the start of the text counting as a boundary in front
BoundedAsserts(s) ==
  {i \in Occurrences(s, AssertToken) :
     /\ ~IsIdentAt(s, i - 1) /\ ~IsDotAt(s, i - 1)
     /\ i + Len(AssertToken) <= Len(s)
     /\ ~IsIdentAt(s, i + Len(AssertToken)) /\ ~IsDotAt(s, i + Len(AssertToken))}

RECURSIVE MarkAsserts(_, _)
\* s with the marker // in front of every bounded assert, from position i on
MarkAsserts(s, i) ==
  IF i > Len(s) THEN <<>>
  ELSE (IF i \in BoundedAsserts(s) THEN CommentMarker ELSE <<>>)
         \o <<s[i]>> \o MarkAsserts(s, i + 1)

\* C4: disable_asserts puts // in front of every assert bounded on both sides
\* by a character outside [A-Za-z0-9_.], an assert in the first column of any
\* line included, and two asserts on one line get a marker each.
C4_EveryBoundedAssert ==
  (cur >= 1 /\ pc = "write") => output_source = MarkAsserts(disk[cur], 1)

\* C5 as stated: after the substitution of a file, an unsupported symbol has one
\* (symbol, file) entry if it occurs in the text of the file as it was before
\* the substitution, and none otherwise.
C5_PresenceInFileText ==
  (cur >= 1 /\ pc = "launch") =>
    \A n \in 1..Len(TableEntries) :
      Count(stats.unsupported_calls, <<TableEntries[n].cuda, cur>>) =
        IF TableEntries[n].unsupported
             /\ Occurrences(disk[cur], TableEntries[n].cuda) # {}
        THEN 1 ELSE 0

\* C5 amended: the pass of an entry flagged unsupported appends exactly one
\* (symbol, file) pair if the symbol occurs in the text as that pass finds it
\* (after the substitutions of the entries before it), whatever the number of
\* occurrences and whether or not the replacement changes the text; no other
\* pass of the substitution appends anything.
C5_PresenceAtEntry ==
  [][pc = "subst" =>
       LET e == TableEntries[entry]
       IN stats'.unsupported_calls =
            IF e.unsupported /\ Occurrences(output_source, e.cuda) # {}
            THEN Append(stats.unsupported_calls, <<e.cuda, cur>>)
            ELSE stats.unsupported_calls]_vars

C5_Witness ==
  /\ cur >= 1 /\ pc = "launch"
  /\ \E n \in 1..Len(TableEntries) :
       /\ TableEntries[n].unsupported
       /\ Cardinality(Occurrences(disk[cur], TableEntries[n].cuda)) >= 3
       /\ Count(stats.unsupported_calls, <<TableEntries[n].cuda, cur>>) = 1

RECURSIVE LaunchMatches(_, _)
\* the matches of the launch pattern in s from position i on, in scan order
LaunchMatches(s, i) ==
  IF i > Len(s) THEN <<>>
  ELSE LET m == LaunchMatchAt(s, i)
       IN IF m.found THEN <<m>> \o LaunchMatches(s, m.last + 1)
          ELSE LaunchMatches(s, i + 1)

\* the launch parameter list of match m holds fewer than 2 expressions
Malformed(m) == Occurrences(m.group3, <<",">>) = {}

MalformedIndexes(s) ==
  {n \in 1..Len(LaunchMatches(s, 1)) : Malformed(LaunchMatches(s, 1)[n])}

\* C6: when the text holds a matched launch with fewer than 2 launch
\* expressions, preprocessor ends in an error: the file on disk and the text
\* are left as they were, only the launches in front of the malformed one are
\* recorded, and nothing is done after the error.
C6_MalformedLaunchFails ==
  [][/\ pc # "error"
     /\ (pc = "launch" /\ MalformedIndexes(output_source) # {}) =>
          /\ pc' = "error"
          /\ disk' = disk
          /\ output_source' = output_source
          /\ IsPrefix(stats.kernel_launches, stats'.kernel_launches)
          /\ \A n \in MalformedIndexes(output_source) :
               Len(stats'.kernel_launches) - Len(stats.kernel_launches) < n]_vars

C6_Witness ==
  /\ pc = "error"
  /\ MalformedIndexes(output_source) # {}
  /\ Occurrences(disk[cur], LaunchOpen) # {}
  /\ Occurrences(disk[cur], HipLaunchName) = {}

\* the number of launch configuration elements of an emitted launch whose
\* kernel name, template and expressions hold no comma
ConfigCount(launch) == Cardinality(Occurrences(launch, <<",">>)) - 1

\* C7 as stated: every rewritten launch is emitted with exactly 4 launch
\* configuration elements, whatever the number n >= 2 of expressions.
C7_AlwaysFour ==
  (cur >= 1 /\ pc = "asserts" /\ disk[cur] \in SingleLaunchTexts) =>
    \A n \in 1..Len(stats.kernel_launches) :
      ConfigCount(stats.kernel_launches[n]) = 4

\* the launch configuration emitted for the expressions exprs
Normalized(exprs) ==
  [n \in 1..(IF Len(exprs) < 4 THEN 4 ELSE Len(exprs)) |->
     IF n > Len(exprs) THEN ZeroLiteral
     ELSE IF n <= 2 THEN Dim3(exprs[n]) ELSE exprs[n]]

\* C7 amended: a rewritten launch with 2 <= n <= 4 expressions is emitted with
\* exactly 4 configuration elements, the first two wrapped in dim3(...) and the
\* positions it did not supply filled with 0; with n > 4 expressions all n are
\* emitted, the first two wrapped, none dropped and no 0 added.
C7_FourOrMore ==
  \A K \in KernelNames, T \in TemplateArgs, gap \in LaunchGaps,
     sep \in ParamSeparators :
    \A exprs \in SeqsUpTo(LaunchExprs, MaxParams) :
      (cur >= 1 /\ pc = "asserts" /\ stats.kernel_launches # <<>>
         /\ disk[cur] = MakeLaunch(K, T, gap, exprs, sep))
        => /\ Len(exprs) >= 2
           /\ stats.kernel_launches = <<ExpectedLaunch(K, T, Normalized(exprs))>>
           /\ output_source = ExpectedLaunch(K, T, Normalized(exprs)) \o CallArgs
           /\ ConfigCount(stats.kernel_launches[1]) =
                IF Len(exprs) <= 4 THEN 4 ELSE Len(exprs)

C7_Witness ==
  /\ cur >= 1 /\ pc = "asserts" /\ stats.kernel_launches # <<>>
  /\ \E K \in KernelNames, T \in TemplateArgs, gap \in LaunchGaps,
        sep \in ParamSeparators :
       \E exprs \in SeqsUpTo(LaunchExprs, MaxParams) :
         /\ Len(exprs) > 4
         /\ disk[cur] = MakeLaunch(K, T, gap, exprs, sep)

\* the entry of es whose symbol is a whole token of s at position i, if any
TokenEntries(s, es, i) ==
  {n \in 1..Len(es) : i \in WholeTokens(s, es[n].cuda)}

RECURSIVE SimultaneousSub(_, _, _)
\* s with every whole-token symbol of es replaced by its own target, every
\* region of s being looked at once
SimultaneousSub(s, es, i) ==
  IF i > Len(s) THEN <<>>
  ELSE IF TokenEntries(s, es, i) # {}
       THEN LET n == CHOOSE m \in TokenEntries(s, es, i) : TRUE
            IN es[n].hip \o SimultaneousSub(s, es, i + Len(es[n].cuda))
       ELSE <<s[i]>> \o SimultaneousSub(s, es, i + 1)

\* C8 as stated: the substitution of a file equals replacing, in the original
\* text, each whole-token symbol by its own target: text emitted for one entry
\* is never rewritten by the pass of another entry.
C8_NoCascade ==
  (cur >= 1 /\ pc = "launch") =>
    output_source = SimultaneousSub(disk[cur], TableEntries, 1)

\* C8 amended: within the pass of one mapping entry every region of the text
\* is substituted at most once (the text emitted for the entry is not scanned
\* again by that pass, even when the target holds the symbol as a whole token),
\* and the pass of each entry works on the text the passes before it left, so
\* that a later entry does rewrite what an earlier one emitted.
C8_OncePerEntry ==
  [][pc = "subst" =>
       output_source' =
         SimultaneousSub(output_source, <<TableEntries[entry]>>, 1)]_vars

C8_Witness ==
  /\ cur >= 1 /\ pc = "launch"
  /\ Len(TableEntries) >= 2
  /\ output_source # SimultaneousSub(disk[cur], TableEntries, 1)
  /\ output_source # disk[cur]

\* every occurrence of every table symbol in s touches a letter, a digit, an
\* underscore or a dot
OnlyDotEmbedded(s) ==
  \A n \in 1..Len(TableEntries) :
    \A i \in Occurrences(s, TableEntries[n].cuda) :
      \/ IsIdentAt(s, i - 1) \/ IsDotAt(s, i - 1)
      \/ IsIdentAt(s, i + Len(TableEntries[n].cuda))
      \/ IsDotAt(s, i + Len(TableEntries[n].cuda))

\* C9 as stated: the dot is a token character of the substitution, so a text
\* whose symbol occurrences all touch a letter, digit, underscore or dot is
\* left unchanged.
C9_DotIsTokenChar ==
  (cur >= 1 /\ pc \in {"subst", "launch"} /\ OnlyDotEmbedded(disk[cur]))
    => output_source = disk[cur]

\* C9 amended: the dot is not a token character of the substitution: an
\* occurrence of the symbol that touches a dot and no letter, digit or
\* underscore is a whole-token match and is replaced (here: the first such
\* match of the pass, up to which the text is kept and at which the target is
\* put); only occurrences touching a letter, digit or underscore are kept.
C9_DotIsBoundary ==
  [][pc = "subst" =>
       LET e == TableEntries[entry]
           s == output_source
           W == WholeTokens(s, e.cuda)
       IN \A i \in W :
            ((\A j \in W : i <= j)
               /\ (IsDotAt(s, i - 1) \/ IsDotAt(s, i + Len(e.cuda))))
              => /\ OccursAt(output_source', e.hip, i)
                 /\ Slice(output_source', 1, i - 1) = Slice(s, 1, i - 1)
                 /\ Len(output_source') =
                      Len(s) + Cardinality(W) * (Len(e.hip) - Len(e.cuda))]_vars

C9_Witness ==
  /\ cur >= 1 /\ pc \in {"subst", "launch"} /\ entry = 2
  /\ LET e == TableEntries[1]
         s == disk[cur]
     IN /\ e.hip # e.cuda
        /\ \E i \in WholeTokens(s, e.cuda) :
             /\ IsDotAt(s, i - 1) \/ IsDotAt(s, i + Len(e.cuda))
             /\ OccursAt(output_source, e.hip, i)
        /\ (Len(TableEntries) = 1 => output_source # s)

\* the positions of the launches emitted into s, in increasing order
RECURSIVE Ascending(_)
Ascending(S) ==
  IF S = {} THEN <<>>
  ELSE LET m == CHOOSE x \in S : \A y \in S : x <= y
       IN <<m>> \o Ascending(S \ {m})

EmittedAt(s) == Ascending(Occurrences(s, HipLaunchName \o <<"(", "(">>))

\* C10: the two statistics only grow at their end; unsupported_calls grows
\* only in the identifier substitution and kernel_launches only in the kernel
\* launch rewriting, by one entry per emitted rewrite in emission order;
\* disable_asserts and compute_stats leave both as they are.
C10_AppendOnly ==
  [][/\ IsPrefix(stats.unsupported_calls, stats'.unsupported_calls)
     /\ IsPrefix(stats.kernel_launches, stats'.kernel_launches)
     /\ (stats'.unsupported_calls # stats.unsupported_calls => pc = "subst")
     /\ (stats'.kernel_launches # stats.kernel_launches => pc = "launch")
     /\ (pc \in {"asserts", "write", "walk", "stats"} => stats' = stats)
     /\ (pc = "launch" /\ pc' = "asserts") =>
          LET old == Len(stats.kernel_launches)
              at == EmittedAt(output_source')
          IN /\ Len(stats'.kernel_launches) = old + Len(at)
             /\ \A n \in 1..Len(at) :
                  OccursAt(output_source', stats'.kernel_launches[old + n], at[n])]_vars

C10_Witness ==
  /\ pc = "done"
  /\ cur >= 2
  /\ Len(stats.kernel_launches) >= 2
  /\ Len(stats.unsupported_calls) >= 2
  /\ report.launches = Len(stats.kernel_launches)

====
